---------------------------- MODULE Spec2Model ----------------------------
(***************************************************************************)
(* Model of "Preprocessing Script/PGNData.py": PGNData._bitboard (the      *)
(* 773-bit position encoding) and PGNData.preprocess (the pass over the    *)
(* games of a PGN file that samples ten positions per included game and    *)
(* accumulates their encodings in win_data / loss_data).                   *)
(*                                                                         *)
(* A boolean vector of length NBits is represented by the set of the       *)
(* indices whose bit is 1: np.zeros(773, dtype=bool) is {}, the assignment *)
(* bitboard[i] = 1 adds i, bitboard[i] = 0 leaves i out.                   *)
(***************************************************************************)
EXTENDS Integers, Sequences, FiniteSets, TLC

VARIABLES
    pc,                 \* position of preprocess(): the statement to run next
    game,               \* the game last returned by chess.pgn.read_game, or None
    nread,              \* number of games the file has yielded so far
    process,            \* outcome of np.random.binomial(n = 1, p = 0.5)
    win_data,           \* list of vectors of the games White won
    loss_data,          \* list of vectors of the games Black won
    processed_games,    \* the progress counter
    temp_data,          \* vectors of the game being processed
    board,              \* chess.Board used for the replay
    moves,              \* number of moves consumed from the iterator `moves`
    board_copy,         \* chess.Board used for the capture scan
    moves_copy,         \* number of moves consumed from `moves_copy`
    non_capture_moves,  \* list of the window indices of the non-capture moves
    ply,                \* int(game.headers['PlyCount'])
    random_moves,       \* array returned by np.random.choice
    error,              \* the exception that ended the run, or "none"
    win_file,           \* win_data.npz: <<>> until written, then <<the array>>
    loss_file,          \* loss_data.npz: <<>> until written, then <<the array>>
    win_src,            \* history: per vector of win_data, the Result of its game
    loss_src,           \* history: per vector of loss_data, the Result of its game
    expected,           \* history: sum of min(10, #eligible) over included non-draw games
    enc_board,          \* encoder harness: the position handed to _bitboard
    enc_out             \* encoder harness: <<>> before the call, then <<the vector>>

vars == <<pc, game, nread, process, win_data, loss_data, processed_games,
          temp_data, board, moves, board_copy, moves_copy, non_capture_moves,
          ply, random_moves, error, win_file, loss_file, win_src, loss_src,
          expected, enc_board, enc_out>>

(***************************************************************************)
(* Bounds of the model.                                                    *)
(***************************************************************************)
\* number of games the PGN file holds at most
MaxGames == 2
\* number of occupied squares of the positions handed to the encoder harness
MaxPieces == 2

(***************************************************************************)
(* Program constants.                                                      *)
(***************************************************************************)
NBits == 773
Opening == 5
NSamples == 10

WHITE == TRUE
BLACK == FALSE

\* int(b) of a Python bool
int(b) == IF b THEN 1 ELSE 0

Min(a, b) == IF a < b THEN a ELSE b

(***************************************************************************)
(* chess.Board, as far as the script uses it: the piece map, the side to   *)
(* move and the four castling rights.  Squares are 0..63 (a1 = 0, h1 = 7,  *)
(* a8 = 56, h8 = 63), colours are TRUE (White) and FALSE (Black), piece    *)
(* types are 1..6 (pawn, knight, bishop, rook, queen, king).               *)
(***************************************************************************)
Squares == 0..63
PieceTypes == 1..6

Piece(c, t) == [color |-> c, piece_type |-> t]

BackRank == <<4, 2, 3, 5, 6, 3, 2, 4>>

\* game.board(): the standard starting position
StartPieces ==
    [sq \in (0..15) \cup (48..63) |->
        IF sq <= 7 THEN Piece(WHITE, BackRank[sq + 1])
        ELSE IF sq <= 15 THEN Piece(WHITE, 1)
        ELSE IF sq <= 55 THEN Piece(BLACK, 1)
        ELSE Piece(BLACK, BackRank[sq - 55])]

StartBoard ==
    [pieces |-> StartPieces, turn |-> WHITE,
     wk |-> TRUE, wq |-> TRUE, bk |-> TRUE, bq |-> TRUE]

Move(f, t) == [from_square |-> f, to_square |-> t]

\* board.is_capture(move): the destination holds a piece of the side not to
\* move (the en passant case does not arise in the games below)
is_capture(b, m) ==
    /\ m.to_square \in DOMAIN b.pieces
    /\ b.pieces[m.to_square].color # b.turn

Touches(m, sq) == m.from_square = sq \/ m.to_square = sq

\* board.push(move) for a move that is neither castling, en passant nor a
\* promotion: the piece goes to the destination (replacing what stood there),
\* the turn passes, and a castling right is lost once its king or rook square
\* is moved from or captured on.
push(b, m) ==
    LET occ == (DOMAIN b.pieces \ {m.from_square}) \cup {m.to_square}
    IN [pieces |-> [sq \in occ |-> IF sq = m.to_square
                                   THEN b.pieces[m.from_square]
                                   ELSE b.pieces[sq]],
        turn |-> ~b.turn,
        wk |-> b.wk /\ ~Touches(m, 4) /\ ~Touches(m, 7),
        wq |-> b.wq /\ ~Touches(m, 4) /\ ~Touches(m, 0),
        bk |-> b.bk /\ ~Touches(m, 60) /\ ~Touches(m, 63),
        bq |-> b.bq /\ ~Touches(m, 60) /\ ~Touches(m, 56)]

(***************************************************************************)
(* PGNData._bitboard                                                       *)
(***************************************************************************)
\* bitboard[i] = v on a boolean array
SetBit(bits, i, v) == IF v = 1 THEN bits \cup {i} ELSE bits \ {i}

PieceIndex_ColorFlipped(piece, square) ==
    int(piece.color) * 6 * 64 + (piece.piece_type - 1) * 64 + square

\* index = (1 - color) * 6 * 64 + (piece_type - 1) * 64 + square
PieceIndex(piece, square) ==
    (1 - int(piece.color)) * 6 * 64 + (piece.piece_type - 1) * 64 + square

\* the loop over piece_map.keys(): every piece sets its bit
RECURSIVE SetPieces(_, _, _)
SetPieces(bits, piece_map, todo) ==
    IF todo = {} THEN bits
    ELSE LET square == CHOOSE sq \in todo : TRUE
         IN SetPieces(SetBit(bits, PieceIndex(piece_map[square], square), 1),
                      piece_map, todo \ {square})

_bitboard(b) ==
    LET b0 == SetPieces({}, b.pieces, DOMAIN b.pieces)
        b1 == SetBit(b0, 768, int(b.turn))
        b2 == SetBit(b1, 769, int(b.wk))
        b3 == SetBit(b2, 770, int(b.wq))
        b4 == SetBit(b3, 771, int(b.bk))
    IN SetBit(b4, 772, int(b.bq))

(***************************************************************************)
(* The games chess.pgn.read_game can return.  A game is its Result and     *)
(* PlyCount headers and its main line.  The main lines are prefixes of two *)
(* legal games from the starting position; neither holds a castling, en    *)
(* passant or promotion move.  The PlyCount header is the length of the    *)
(* main line, but for two games whose header is off by one.                *)
(***************************************************************************)
\* 1. Nf3 Nf6 2. Ng1 Ng8 3. e4 d5 4. exd5 Qxd5 5. Nf3 Qe4+ 6. Be2 Qd5
\* 7. Rg1 Nf6 8. Rh1 Ng8 9. Rg1 Nf6
LineA ==
    << Move(6, 21), Move(62, 45), Move(21, 6), Move(45, 62),
       Move(12, 28), Move(51, 35), Move(28, 35), Move(59, 35),
       Move(6, 21), Move(35, 28), Move(5, 12), Move(28, 35),
       Move(7, 6), Move(62, 45), Move(6, 7), Move(45, 62),
       Move(7, 6), Move(62, 45) >>

\* 1. Nf3 Nf6 2. Ng1 Ng8 3. Nc3 Nc6 4. Nb1 Nb8 5. Nf3 Nf6 6. Ng1 Ng8
\* 7. Nc3 Nc6 8. Nb1
LineB ==
    << Move(6, 21), Move(62, 45), Move(21, 6), Move(45, 62),
       Move(1, 18), Move(57, 42), Move(18, 1), Move(42, 57),
       Move(6, 21), Move(62, 45), Move(21, 6), Move(45, 62),
       Move(1, 18), Move(57, 42), Move(18, 1) >>

Prefix(s, n) == SubSeq(s, 1, n)

PGN(r, p, m) == [Result |-> r, PlyCount |-> p, moves |-> m]

\* fewer plies than the opening
Short == Prefix(LineA, 4)
\* exactly the opening: the window is empty
OpeningOnly == Prefix(LineA, 5)
\* a window of 10 moves, 2 of them captures
Few == Prefix(LineA, 15)

\* The games a file may hold.  Window sizes and non-capture counts:
\*   Short        no window              OpeningOnly   0 moves,  0 non-captures
\*   Few          10 moves,  8           LineA         13 moves, 11
\*   LineA / 17   12 moves, 10           LineB         10 moves, 10
\*   LineA / 19   header one more than the main line holds
Games ==
    { PGN("1-0", 4, Short), PGN("1/2-1/2", 4, Short),
      PGN("0-1", 5, OpeningOnly),
      PGN("1-0", 15, Few),
      PGN("0-1", 18, LineA), PGN("1/2-1/2", 18, LineA),
      PGN("1-0", 17, LineA), PGN("0-1", 19, LineA),
      PGN("1-0", 15, LineB), PGN("0-1", 15, LineB), PGN("*", 15, LineB) }

\* read_game returns None at the end of the file
None == [Result |-> "None", PlyCount |-> 0, moves |-> <<>>]

\* chess.pgn.read_game(self.pgn_chess_games): the next game of the file, or
\* None once the file is exhausted
read_game == IF nread < MaxGames THEN Games \cup {None} ELSE {None}

\* next(it) on an iterator of game.main_line() that has yielded `it` moves
HasNext(g, it) == it < Len(g.moves)
NextMove(g, it) == g.moves[it + 1]

\* `move in random_moves` on the array
In(x, arr) == \E j \in 1..Len(arr) : arr[j] = x

RECURSIVE Ascending(_)
Ascending(S) ==
    IF S = {} THEN <<>>
    ELSE LET x == CHOOSE y \in S : \A z \in S : y <= z
         IN <<x>> \o Ascending(S \ {x})

Reverse(s) == [j \in 1..Len(s) |-> s[Len(s) + 1 - j]]

Range(s) == {s[j] : j \in 1..Len(s)}

\* np.random.choice(a, size, replace=False) for len(a) >= size: the arrays of
\* `size` distinct elements of a.  The order of the draws is arbitrary; the
\* increasing and the decreasing order of every subset are covered.
choice(a, size) ==
    LET subsets == {S \in SUBSET Range(a) : Cardinality(S) = size}
    IN {Ascending(S) : S \in subsets} \cup {Reverse(Ascending(S)) : S \in subsets}

(***************************************************************************)
(* History bookkeeping (not program state).                                *)
(***************************************************************************)
\* the position of game g after its first n moves
RECURSIVE PositionAfter(_, _)
PositionAfter(g, n) ==
    IF n = 0 THEN StartBoard
    ELSE push(PositionAfter(g, n - 1), g.moves[n])

\* the window indices i of g whose move number Opening + i (0-based) exists
\* and is not a capture in the position it is played in
EligibleOf(g) ==
    {i \in 0..(Min(g.PlyCount, Len(g.moves)) - Opening - 1) :
        ~is_capture(PositionAfter(g, Opening + i), g.moves[Opening + i + 1])}

\* what a game that went through the loop body adds to `expected`
Due(g, p) ==
    IF g.Result # "1/2-1/2" /\ p = 1
    THEN Min(NSamples, Cardinality(EligibleOf(g)))
    ELSE 0

Tags(n, r) == [j \in 1..n |-> r]

(***************************************************************************)
(* PGNData.preprocess                                                      *)
(***************************************************************************)
Locals == <<temp_data, board, moves, board_copy, moves_copy,
            non_capture_moves, ply, random_moves>>
Data == <<win_data, loss_data, win_src, loss_src>>
Files == <<win_file, loss_file>>
Harness == <<enc_board, enc_out>>

\* an exception nothing catches ends the run: the rest of the loop and the
\* two savez_compressed calls are never reached
Raise(e) ==
    /\ pc' = "crashed"
    /\ error' = e
    /\ expected' = expected + Due(game, process)

\* lines 71-75: read the first game, create the empty lists
ReadFirst ==
    /\ pc = "start"
    /\ \E g \in read_game :
        /\ game' = g
        /\ nread' = IF g = None THEN nread ELSE nread + 1
    /\ win_data' = <<>>
    /\ loss_data' = <<>>
    /\ processed_games' = 0
    /\ pc' = "while"
    /\ UNCHANGED <<process, Locals, error, Files, win_src, loss_src,
                   expected, Harness>>

\* line 78, game == None: leave the loop
LoopExit ==
    /\ pc = "while"
    /\ game = None
    /\ pc' = "save"
    /\ UNCHANGED <<game, nread, process, Data, processed_games, Locals, error,
                   Files, expected, Harness>>

Included_Or(g, p) == g.Result # "1/2-1/2" \/ p = 1

\* line 84: game.headers['Result'] != '1/2-1/2' and process
Included(g, p) == g.Result # "1/2-1/2" /\ p = 1

\* lines 78-92: draw the inclusion trial; an included game gets its two
\* boards and its two move iterators, any other game goes to line 126
Gate ==
    /\ pc = "while"
    /\ game # None
    /\ \E p \in {0, 1} :
        /\ process' = p
        /\ IF Included(game, p)
           THEN /\ temp_data' = <<>>
                /\ board' = StartBoard
                /\ moves' = 0
                /\ board_copy' = StartBoard
                /\ moves_copy' = 0
                /\ pc' = "opening"
           ELSE /\ UNCHANGED <<temp_data, board, moves, board_copy, moves_copy>>
                /\ pc' = "read"
    /\ UNCHANGED <<game, nread, Data, processed_games, non_capture_moves, ply,
                   random_moves, error, Files, expected, Harness>>

\* lines 95-97, from iteration k on; s holds board, moves, board_copy,
\* moves_copy and the exception raised
RECURSIVE OpeningLoop(_, _, _)
OpeningLoop(g, k, s) ==
    IF k = Opening THEN s
    ELSE IF ~HasNext(g, s.moves) THEN [s EXCEPT !.error = "StopIteration"]
    ELSE LET s1 == [s EXCEPT !.board = push(s.board, NextMove(g, s.moves)),
                             !.moves = s.moves + 1]
         IN IF ~HasNext(g, s1.moves_copy)
            THEN [s1 EXCEPT !.error = "StopIteration"]
            ELSE OpeningLoop(g, k + 1,
                    [s1 EXCEPT !.board_copy = push(s1.board_copy,
                                                   NextMove(g, s1.moves_copy)),
                               !.moves_copy = s1.moves_copy + 1])

\* lines 94-97: ignore the first 5 moves
SkipOpening ==
    /\ pc = "opening"
    /\ LET s == OpeningLoop(game, 0,
                    [board |-> board, moves |-> moves, board_copy |-> board_copy,
                     moves_copy |-> moves_copy, error |-> "none"])
       IN /\ board' = s.board
          /\ moves' = s.moves
          /\ board_copy' = s.board_copy
          /\ moves_copy' = s.moves_copy
          /\ IF s.error # "none"
             THEN Raise(s.error)
             ELSE pc' = "scan" /\ UNCHANGED <<error, expected>>
    /\ UNCHANGED <<game, nread, process, Data, processed_games, temp_data,
                   non_capture_moves, ply, random_moves, Files, Harness>>

\* one iteration of lines 103-107 with the push made only for a non-capture
ScanStep_PushNonCaptureOnly(s, move, next_move) ==
    IF ~is_capture(s.board_copy, next_move)
    THEN [s EXCEPT !.non_capture_moves = Append(s.non_capture_moves, move),
                   !.board_copy = push(s.board_copy, next_move)]
    ELSE s

\* lines 105-107: note the index of a non-capture, then push the move
ScanStep(s, move, next_move) ==
    LET s1 == IF ~is_capture(s.board_copy, next_move)
              THEN [s EXCEPT !.non_capture_moves =
                                 Append(s.non_capture_moves, move)]
              ELSE s
    IN [s1 EXCEPT !.board_copy = push(s1.board_copy, next_move)]

\* lines 103-107, from iteration `move` of range(n) on
RECURSIVE ScanLoop(_, _, _, _)
ScanLoop(g, move, n, s) ==
    IF move >= n THEN s
    ELSE IF ~HasNext(g, s.moves_copy) THEN [s EXCEPT !.error = "StopIteration"]
    ELSE ScanLoop(g, move + 1, n,
            ScanStep([s EXCEPT !.moves_copy = s.moves_copy + 1],
                     move, NextMove(g, s.moves_copy)))

\* lines 99-107: identify the non-capture moves of the window
Scan ==
    /\ pc = "scan"
    /\ ply' = game.PlyCount
    /\ LET s == ScanLoop(game, 0, game.PlyCount - Opening,
                    [board_copy |-> board_copy, moves_copy |-> moves_copy,
                     non_capture_moves |-> <<>>, error |-> "none"])
       IN /\ board_copy' = s.board_copy
          /\ moves_copy' = s.moves_copy
          /\ non_capture_moves' = s.non_capture_moves
          /\ IF s.error # "none"
             THEN Raise(s.error)
             ELSE pc' = "choice" /\ UNCHANGED <<error, expected>>
    /\ UNCHANGED <<game, nread, process, Data, processed_games, temp_data,
                   board, moves, random_moves, Files, Harness>>

\* line 110: np.random.choice raises ValueError when asked for more distinct
\* elements than the list holds
Sample ==
    /\ pc = "choice"
    /\ IF Len(non_capture_moves) < NSamples
       THEN Raise("ValueError") /\ UNCHANGED random_moves
       ELSE /\ random_moves' \in choice(non_capture_moves, NSamples)
            /\ pc' = "replay"
            /\ UNCHANGED <<error, expected>>
    /\ UNCHANGED <<game, nread, process, Data, processed_games, temp_data,
                   board, moves, board_copy, moves_copy, non_capture_moves, ply,
                   Files, Harness>>

\* one iteration of lines 115-117 with the position taken before the push
ReplayStep_EncodeBeforePush(s, move, next_move, chosen) ==
    LET s1 == IF In(move, chosen)
              THEN [s EXCEPT !.temp_data = Append(s.temp_data, _bitboard(s.board))]
              ELSE s
    IN [s1 EXCEPT !.board = push(s1.board, next_move)]

\* lines 115-117: push the move, then encode the board if the index was drawn
ReplayStep(s, move, next_move, chosen) ==
    LET s1 == [s EXCEPT !.board = push(s.board, next_move)]
    IN IF In(move, chosen)
       THEN [s1 EXCEPT !.temp_data = Append(s1.temp_data, _bitboard(s1.board))]
       ELSE s1

\* lines 114-117, from iteration `move` of range(n) on
RECURSIVE ReplayLoop(_, _, _, _, _)
ReplayLoop(g, move, n, chosen, s) ==
    IF move >= n THEN s
    ELSE IF ~HasNext(g, s.moves) THEN [s EXCEPT !.error = "StopIteration"]
    ELSE ReplayLoop(g, move + 1, n, chosen,
            ReplayStep([s EXCEPT !.moves = s.moves + 1],
                       move, NextMove(g, s.moves), chosen))

\* lines 112-117: extract the bitboards of the drawn positions
Replay ==
    /\ pc = "replay"
    /\ LET s == ReplayLoop(game, 0, ply - Opening, random_moves,
                    [board |-> board, moves |-> moves, temp_data |-> temp_data,
                     error |-> "none"])
       IN /\ board' = s.board
          /\ moves' = s.moves
          /\ temp_data' = s.temp_data
          /\ IF s.error # "none"
             THEN Raise(s.error)
             ELSE pc' = "store" /\ UNCHANGED <<error, expected>>
    /\ UNCHANGED <<game, nread, process, Data, processed_games, board_copy,
                   moves_copy, non_capture_moves, ply, random_moves, Files,
                   Harness>>

Store_Swapped(result, w, l, t) ==
    IF result = "1-0" THEN [win |-> w, loss |-> l \o t]
    ELSE IF result = "0-1" THEN [win |-> w \o t, loss |-> l]
    ELSE [win |-> w, loss |-> l]

\* lines 120-123: win_data += temp_data for '1-0', loss_data += temp_data
\* for '0-1', nothing for any other Result
Store(result, w, l, t) ==
    IF result = "1-0" THEN [win |-> w \o t, loss |-> l]
    ELSE IF result = "0-1" THEN [win |-> w, loss |-> l \o t]
    ELSE [win |-> w, loss |-> l]

\* lines 119-123: store the extracted bitboards
Record ==
    /\ pc = "store"
    /\ LET d == Store(game.Result, win_data, loss_data, temp_data)
       IN /\ win_data' = d.win
          /\ loss_data' = d.loss
          /\ win_src' = win_src \o Tags(Len(d.win) - Len(win_data), game.Result)
          /\ loss_src' = loss_src \o Tags(Len(d.loss) - Len(loss_data), game.Result)
    /\ pc' = "read"
    /\ UNCHANGED <<game, nread, process, processed_games, Locals, error, Files,
                   expected, Harness>>

\* the locals of the loop body at the end of an iteration.  Each of them is
\* assigned again before it is next read (lines 81, 86-92, 99-100, 110), so
\* the values they keep from the game just handled are dead; the model
\* forgets them here.
Forgotten ==
    /\ process' = 0
    /\ temp_data' = <<>>
    /\ board' = StartBoard
    /\ moves' = 0
    /\ board_copy' = StartBoard
    /\ moves_copy' = 0
    /\ non_capture_moves' = <<>>
    /\ ply' = 0
    /\ random_moves' = <<>>

\* lines 125-131: read the next game, count the one just handled
Advance ==
    /\ pc = "read"
    /\ processed_games' = processed_games + 1
    /\ expected' = expected + Due(game, process)
    /\ pc' = "while"
    /\ Forgotten
    /\ UNCHANGED <<Data, error, Files, Harness>>
    /\ \E g \in read_game :
        /\ game' = g
        /\ nread' = IF g = None THEN nread ELSE nread + 1

\* lines 133-137: save the results
Save ==
    /\ pc = "save"
    /\ win_file' = <<win_data>>
    /\ loss_file' = <<loss_data>>
    /\ pc' = "done"
    /\ UNCHANGED <<game, nread, process, Data, processed_games, Locals, error,
                   expected, Harness>>

Init ==
    /\ pc = "start"
    /\ game = None
    /\ nread = 0
    /\ process = 0
    /\ win_data = <<>>
    /\ loss_data = <<>>
    /\ processed_games = 0
    /\ temp_data = <<>>
    /\ board = StartBoard
    /\ moves = 0
    /\ board_copy = StartBoard
    /\ moves_copy = 0
    /\ non_capture_moves = <<>>
    /\ ply = 0
    /\ random_moves = <<>>
    /\ error = "none"
    /\ win_file = <<>>
    /\ loss_file = <<>>
    /\ win_src = <<>>
    /\ loss_src = <<>>
    /\ expected = 0
    /\ enc_board = StartBoard
    /\ enc_out = <<>>

Next ==
    \/ ReadFirst
    \/ LoopExit
    \/ Gate
    \/ SkipOpening
    \/ Scan
    \/ Sample
    \/ Replay
    \/ Record
    \/ Advance
    \/ Save

Spec == Init /\ [][Next]_vars

(***************************************************************************)
(* Harness for _bitboard: a position is drawn, then encoded.               *)
(***************************************************************************)
EncSquares == {0, 36, 63}

EncPieces == {Piece(c, t) : c \in BOOLEAN, t \in PieceTypes}

EncPieceMaps ==
    UNION {[occ -> EncPieces] :
            occ \in {S \in SUBSET EncSquares : Cardinality(S) <= MaxPieces}}

EncPositions ==
    {[pieces |-> pm, turn |-> t, wk |-> f[1], wq |-> f[2], bk |-> f[3], bq |-> f[4]] :
        pm \in EncPieceMaps, t \in BOOLEAN, f \in [1..4 -> BOOLEAN]}

PipelineIdle ==
    <<pc, game, nread, process, Data, processed_games, Locals, error, Files,
      expected>>

InitEnc ==
    /\ pc = "start"
    /\ game = None
    /\ nread = 0
    /\ process = 0
    /\ win_data = <<>>
    /\ loss_data = <<>>
    /\ processed_games = 0
    /\ temp_data = <<>>
    /\ board = StartBoard
    /\ moves = 0
    /\ board_copy = StartBoard
    /\ moves_copy = 0
    /\ non_capture_moves = <<>>
    /\ ply = 0
    /\ random_moves = <<>>
    /\ error = "none"
    /\ win_file = <<>>
    /\ loss_file = <<>>
    /\ win_src = <<>>
    /\ loss_src = <<>>
    /\ expected = 0
    /\ enc_board \in EncPositions
    /\ enc_out = <<>>

\* bitboard = self._bitboard(board)
Encode ==
    /\ enc_out = <<>>
    /\ enc_out' = <<_bitboard(enc_board)>>
    /\ UNCHANGED <<enc_board, PipelineIdle>>

NextEnc == Encode

SpecEnc == InitEnc /\ [][NextEnc]_vars

(***************************************************************************)
(* Properties.                                                             *)
(***************************************************************************)
IsPrefix(a, b) == Len(a) <= Len(b) /\ SubSeq(b, 1, Len(a)) = a

Total == Len(win_data) + Len(loss_data)

\* C1: a game whose Result is '1/2-1/2', or whose inclusion trial fails, goes
\* from the loop head straight to the read of the next game, and neither
\* that step nor the read changes win_data or loss_data, whatever the moves
\* and the ply count of the game are.
C1_SkippedGameAppendsNothing ==
    [][ /\ (pc = "while" /\ game # None
                /\ (game.Result = "1/2-1/2" \/ process' = 0))
            => (pc' = "read" /\ win_data' = win_data /\ loss_data' = loss_data)
        /\ (pc = "read" /\ (game.Result = "1/2-1/2" \/ process = 0))
            => (pc' = "while" /\ win_data' = win_data /\ loss_data' = loss_data)
      ]_vars

\* a drawn game of 18 plies that passed the trial is skipped after an earlier
\* game has stored vectors
C1_Witness ==
    /\ pc = "read"
    /\ game.Result = "1/2-1/2"
    /\ process = 1
    /\ Len(game.moves) = 18
    /\ Total > 0

Provenance ==
    /\ Len(win_src) = Len(win_data)
    /\ Len(loss_src) = Len(loss_data)
    /\ \A j \in 1..Len(win_src) : win_src[j] = "1-0"
    /\ \A j \in 1..Len(loss_src) : loss_src[j] = "0-1"

\* C2: every vector of win_data comes from a game whose Result is '1-0' and
\* every vector of loss_data from a game whose Result is '0-1'; storing the
\* vectors of a '1-0' game leaves loss_data unchanged, storing those of a
\* '0-1' game leaves win_data unchanged, and no step removes or reorders
\* the entries either list already holds.
C2_RoutedByResult ==
    [][ /\ Provenance'
        /\ IsPrefix(win_data, win_data')
        /\ IsPrefix(loss_data, loss_data')
        /\ (pc = "store" /\ game.Result = "1-0") => loss_data' = loss_data
        /\ (pc = "store" /\ game.Result = "0-1") => win_data' = win_data
      ]_vars

\* the vectors of a second decisive game have been stored behind those of a
\* first, and both lists hold vectors
C2_Witness ==
    /\ pc = "read"
    /\ processed_games = 1
    /\ process = 1
    /\ Len(win_data) > 0
    /\ Len(loss_data) > 0

\* C3: between games and when the run has ended, the number of vectors in
\* win_data and loss_data together is the sum, over the games handled so
\* far that passed the trial and are not drawn, of min(10, number of
\* non-capture window indices of the game).
C3_TotalIsSumOfMin ==
    pc \in {"while", "save", "done", "crashed"} => Total = expected

InsufficientEligiblePositions == error = "ValueError"

MalformedGame == error = "StopIteration" /\ game.PlyCount # Len(game.moves)

\* C4: a game with fewer than 10 non-capture window moves, or a game whose
\* PlyCount header is not the length of its main line, never ends the run:
\* the failure stays with that game.
C4_FailureIsolated ==
    (InsufficientEligiblePositions \/ MalformedGame) => pc # "crashed"

\* C5: an included game with a ply count below 6 raises no error, neither
\* while the five opening moves are pushed nor when the sample is drawn,
\* and has no vector to store, so that win_data and loss_data stay as they
\* were.
C5_ShortGameShortCircuits ==
    (game # None /\ game.PlyCount < 6 /\ game.Result # "1/2-1/2" /\ process = 1)
        => (error = "none" /\ pc # "crashed" /\ temp_data = <<>>)

\* C6: when the run has stopped, at the end of the file or before it, the
\* vectors accumulated so far have been written to win_data and loss_data.
C6_StopFlushes ==
    (pc \in {"done", "crashed"} /\ Total > 0)
        => (win_file = <<win_data>> /\ loss_file = <<loss_data>>)

\* C7: in the vector _bitboard returns, the bits k < 768 that are set are
\* exactly those for which some occupied square holds a piece with
\* k = (1 - color) * 6 * 64 + (piece_type - 1) * 64 + square; these indices
\* lie in 0..767 and differ for different squares, so the number of bits set
\* below 768 is the number of occupied squares; bit 768 is the side to move
\* (1 = White) and bits 769..772 are the castling rights White kingside,
\* White queenside, Black kingside, Black queenside.
C7_BitLayout ==
    enc_out # <<>> =>
        LET v == enc_out[1]
            pm == enc_board.pieces
            idx(sq) == (1 - (IF pm[sq].color THEN 1 ELSE 0)) * 384
                        + (pm[sq].piece_type - 1) * 64 + sq
        IN /\ v \subseteq 0..(NBits - 1)
           /\ {k \in v : k <= 767} = {idx(sq) : sq \in DOMAIN pm}
           /\ \A sq \in DOMAIN pm : idx(sq) \in 0..767
           /\ \A a, b \in DOMAIN pm : a # b => idx(a) # idx(b)
           /\ Cardinality(v \cap (0..767)) = Cardinality(DOMAIN pm)
           /\ (768 \in v) <=> (enc_board.turn = WHITE)
           /\ (769 \in v) <=> enc_board.wk
           /\ (770 \in v) <=> enc_board.wq
           /\ (771 \in v) <=> enc_board.bk
           /\ (772 \in v) <=> enc_board.bq

\* two pieces of different colours encoded, White to move, mixed rights
C7_Witness ==
    /\ enc_out # <<>>
    /\ Cardinality(DOMAIN enc_board.pieces) = 2
    /\ \E a, b \in DOMAIN enc_board.pieces :
            enc_board.pieces[a].color # enc_board.pieces[b].color
    /\ enc_board.turn = WHITE
    /\ enc_board.wk /\ ~enc_board.wq /\ ~enc_board.bk /\ enc_board.bq

\* C8: every position stored for an included game is a position of the game
\* after at least five moves, and the move the game plays in that position
\* is not a capture.
C8_MovePlayedNotCapture ==
    pc = "store" =>
        \A k \in 1..Len(temp_data) :
            \E n \in Opening..Len(game.moves) :
                /\ temp_data[k] = _bitboard(PositionAfter(game, n))
                /\ n < Len(game.moves) =>
                        ~is_capture(PositionAfter(game, n), game.moves[n + 1])

\* C9: after the scan, window index i in 0..PlyCount-6 is in
\* non_capture_moves exactly if move number 5+i (0-based) is not a capture in
\* the position after the first 5+i moves; the scanning board has been
\* advanced by every move of the window; and the replay board and its
\* iterator still stand after exactly the five opening moves until the
\* replay starts.
C9_ScanOnTruePositions ==
    /\ pc = "choice" =>
        /\ \A i \in 0..(game.PlyCount - Opening - 1) :
                In(i, non_capture_moves) <=>
                    ~is_capture(PositionAfter(game, Opening + i),
                                game.moves[Opening + i + 1])
        /\ Range(non_capture_moves) \subseteq 0..(game.PlyCount - Opening - 1)
        /\ board_copy = PositionAfter(game, game.PlyCount)
        /\ moves_copy = game.PlyCount
    /\ pc \in {"choice", "replay"} =>
        /\ board = PositionAfter(game, Opening)
        /\ moves = Opening

\* the scan of a window that holds captures has ended
C9_Witness ==
    /\ pc = "choice"
    /\ Len(non_capture_moves) >= NSamples
    /\ Len(non_capture_moves) < game.PlyCount - Opening

=============================================================================
